---- MODULE Spec2Model ----
(***************************************************************************)
(* The Zymbit demonstration scripts (ct_crypto.py, ct_getrandom.py,        *)
(* ct_lockunlock.py, ct_sensor_encdec.py, ct_signverify.py,                *)
(* ct_perimeter_detect.py) as state machines over the zymkey client.       *)
(* Each script is a sequential program: one action per statement or call.  *)
(* The zymkey client itself is not among the source files; its operations  *)
(* are written from the interface contract of the specification.           *)
(***************************************************************************)
EXTENDS Integers, Sequences, FiniteSets, TLC

VARIABLES
    \* ---- entropy scripts: ct_crypto.py lines 10-16, ct_getrandom.py
    rnd_script,      \* which script runs
    rnd_pc,          \* its position
    x,               \* ct_crypto.py: loop variable of range(num_blocks)
    random_bytes,    \* the blocks received so far (one entry per get_random call)
    announced,       \* the byte count printed at ct_crypto.py line 13
    entropy,         \* the module's entropy state
    \* ---- lock/unlock scripts: ct_crypto.py lines 18-32, ct_lockunlock.py,
    \*      ct_sensor_encdec.py
    lk_script,       \* which script runs
    lk_pc,           \* its position
    kc,              \* the key context of the module now attached
    temperature_c,   \* ct_sensor_encdec.py: the last reading
    plain,           \* the data handed to lock (random_bytes / src / plain)
    cipher,          \* the blob the host holds (encrypted / dst / cipher)
    plain_check,     \* what unlock returned (decrypted / new_dst / plain_check)
    verdict,         \* the branch the equality check took
    buzzer,          \* ct_sensor_encdec.py: GPIO.output(buzzer, ...)
    iter,            \* ct_sensor_encdec.py: iterations of while True started
    raised,          \* the last error raised by an operation
    uncaught,        \* the error that ended the script, if any
    swallowed,       \* the errors an except clause caught and dropped
    locked_out,      \* history: the blob lock returned
    lock_kc,         \* history: the key context lock ran under
    unlock_result,   \* history: how the last unlock call ended
    tampers,         \* history: alterations of the held blob so far
    \* ---- ct_signverify.py, and sign/verify applied to drawn messages
    sg_script,       \* "ct_signverify", or "drawn" for drawn messages
    sg_pc,           \* its position
    sk,              \* the module's key pair
    secret_message,  \* the message that is signed
    other_message,   \* the message of the second verify call
    signature,       \* what sign returned
    verify_genuine,  \* how verify(secret_message, signature) ended
    verify_other,    \* how verify(other_message, signature) ended
    sg_out,          \* what the script printed or raised at lines 20-25
    \* ---- ct_perimeter_detect.py: the polling script (lines 1-7) and the
    \*      notify script (lines 11-24)
    pd_script,       \* "poll" or "notify"
    pd_pc,           \* its position
    wait_quirk,      \* the module shows the behaviour reported at line 9
    pending,         \* the events latched in the module: <<id, channel>>
    actions,         \* per channel: the configured notify / self-destruct
    waiting,         \* a wait_for_perimeter_event call is blocked
    fired,           \* events that fired on notifying channels during the wait
    waited,          \* ticks the call has been blocked
    res,             \* notify script: the result of the wait call
    last_info,       \* the record the last get_perimeter_detect_info returned
    prev_info,       \* the record the get call before that returned
    printed,         \* the events the script has printed
    cleared,         \* the events a clear has discarded
    tracked,         \* notify script: events that fired after line 17
    stimuli,         \* tamper stimuli so far
    got,             \* get calls so far (0, 1, or 2 for two and more)
    clean,           \* history: cleared, and no stimulus since
    got_clean,       \* history: the last get call found clean
    quiet,           \* history: no stimulus and no clear since the last get
    quiet_prev,      \* history: none between the last two get calls
    \* ---- the notify loop and the sensor loop running at the same time
    bus_owner,       \* the process holding the client's bus lock, or "none"
    bus_req,         \* the request on the bus
    bus_resp,        \* the response on the bus
    in_flight,       \* the processes with a bus transaction in progress
    bpc,             \* per process: the call it is at, and the call's phase
    result           \* per process: the response its last call received

rndVars == <<rnd_script, rnd_pc, x, random_bytes, announced, entropy>>

lockVars ==
    <<lk_script, lk_pc, kc, temperature_c, plain, cipher, plain_check, verdict,
      buzzer, iter, raised, uncaught, swallowed, locked_out, lock_kc,
      unlock_result, tampers>>

signVars ==
    <<sg_script, sg_pc, sk, secret_message, other_message, signature,
      verify_genuine, verify_other, sg_out>>

periVars ==
    <<pd_script, pd_pc, wait_quirk, pending, actions, waiting, fired, waited,
      res, last_info, prev_info, printed, cleared, tracked, stimuli, got,
      clean, got_clean, quiet, quiet_prev>>

busVars == <<bus_owner, bus_req, bus_resp, in_flight, bpc, result>>

vars == <<rndVars, lockVars, signVars, periVars, busVars>>

(***************************************************************************)
(* Entropy source                                                          *)
(***************************************************************************)

\* ct_crypto.py line 11
bs == 512
\* ct_crypto.py line 12
num_blocks == 256
\* ct_getrandom.py line 8
num == 512
\* "a 1MB array" of the comment at ct_crypto.py line 10
OneMegabyte == 1048576

\* Distinct entropy states of the module that the model tells apart.
EntropyMod == 4

\* zymkey.client.get_random(n): n bytes drawn from the entropy state e.  The
\* block is kept as its length and the draw that determines its bytes.
GetRandom(n, e) == [n |-> n, seed |-> e]

\* The entropy state after one draw.
NextEntropy(e) == (e + 1) % EntropyMod

\* The sum of the lengths of blocks[lo..hi], by halving the range.
RECURSIVE SumLen(_, _, _)
SumLen(blocks, lo, hi) ==
    IF lo > hi THEN 0
    ELSE IF lo = hi THEN blocks[lo].n
    ELSE LET mid == (lo + hi) \div 2
         IN  SumLen(blocks, lo, mid) + SumLen(blocks, mid + 1, hi)

\* len() of a list built by += of blocks: the sum of the blocks' lengths.
ByteLen(blocks) == SumLen(blocks, 1, Len(blocks))

\* ct_crypto.py line 13: the byte count the script prints.
AnnouncedBytes == bs * num_blocks

(***************************************************************************)
(* Lock / unlock under the module-held key                                 *)
(***************************************************************************)

\* Largest length of a data block drawn for ct_crypto.py's random_bytes.
MaxLen == 2
\* Largest reading drawn for the DHT11 sensor.
MaxTemp == 2
\* Number of nonces a lock call may draw.
MaxIv == 2
\* Number of key contexts (modules) the model tells apart.
MaxKc == 2
\* Iterations of ct_sensor_encdec.py's loop that the model follows.
MaxIter == 2
\* Alterations of one held blob that the model follows.
MaxTamper == 1

ByteSample == {0, 255}
KeyContexts == 1 .. MaxKc
Ivs == 0 .. MaxIv - 1

\* Byte sequences of length 0 .. n over ByteSample.
SeqsUpTo(n) == UNION {[1 .. k -> ByteSample] : k \in 0 .. n}

\* ct_lockunlock.py line 5: bytearray(b'\x01\x02\x03\x04')
src == <<1, 2, 3, 4>>

\* bytearray(n) for an int n >= 0: n zero bytes (ct_sensor_encdec.py line 23).
ByteArrayOfInt(n) == [i \in 1 .. n |-> 0]

NoData == <<-1>>
NoBlob == [iv |-> -1, body |-> <<>>, tag |-> <<>>]
NoError == [name |-> "none", runtime |-> FALSE]

\* The key stream byte at position i under key context k and nonce n.
KeyStream(k, n, i) == (k * 31 + n * 17 + i * 7 + 1) % 256

\* The authentication tag: binds key context, nonce and plaintext; only the
\* module holding k can produce it.
Mac(k, n, p) == <<k, n, p>>

Encrypt(k, n, p) == [i \in 1 .. Len(p) |-> (p[i] + KeyStream(k, n, i)) % 256]
Decrypt(k, n, c) == [i \in 1 .. Len(c) |-> (c[i] - KeyStream(k, n, i)) % 256]

\* zymkey.client.lock(plaintext) under key context k with nonce n: the opaque
\* blob (nonce, encrypted body, authentication tag).
Lock(k, n, p) == [iv |-> n, body |-> Encrypt(k, n, p), tag |-> Mac(k, n, p)]

\* An unlock that returns whatever the body decrypts to (no integrity check).
UnlockUnchecked(k, c) ==
    [ok |-> TRUE, data |-> Decrypt(k, c.iv, c.body)]

\* zymkey.client.unlock(ciphertext) under key context k: the plaintext, or
\* IntegrityError when the tag does not match.
Unlock(k, c) ==
    LET p == Decrypt(k, c.iv, c.body)
    IN  IF c.tag = Mac(k, c.iv, p)
        THEN [ok |-> TRUE, data |-> p]
        ELSE [ok |-> FALSE, data |-> NoData]

\* An except clause that catches every error.
SensorCatchesAll(e) == TRUE

\* ct_sensor_encdec.py line 37: except RuntimeError.
SensorCatches(e) == e.runtime

\* An equality check that compares the blob's body with the original.
CryptoVerdictOfBlob(original, blob, decrypted) ==
    IF blob.body = original THEN "PASS" ELSE "MISMATCH"

\* ct_crypto.py lines 26-32: list(decrypted) == list(random_bytes).
CryptoVerdict(original, blob, decrypted) ==
    IF decrypted = original THEN "PASS" ELSE "MISMATCH"

\* ct_sensor_encdec.py line 32: plain == plain_check.
SensorVerdict(original, decrypted) ==
    IF original = decrypted THEN "PASS" ELSE "MISMATCH"

\* The positions of ct_sensor_encdec.py inside its try block (lines 18-34).
InTry == {"s_read", "s_plain", "s_lock", "s_unlock", "s_compare"}

\* The positions at which the host holds a blob it has not yet unlocked.
HoldsBlob == {"c_unlock", "l_unlock", "s_unlock"}

\* Errors of the client library; whether their classes derive from
\* RuntimeError is not fixed by the interface.
LibraryErrors(names) == {[name |-> n, runtime |-> r] : n \in names, r \in BOOLEAN}

\* The DHT driver's read failure is a RuntimeError (comment at line 38).
SensorReadError == [name |-> "RuntimeError", runtime |-> TRUE]

(***************************************************************************)
(* Sign / verify under the module-held key pair                            *)
(***************************************************************************)

\* Largest length of a drawn message.
MaxMsgLen == 2

\* The characters of the messages, in a fixed order.
Alphabet ==
    <<"H", "i", " ", "A", "l", "c", "e", ",", "-", "B", "o", "b", "E", "v">>

MsgChars == {"A", "E"}
Msgs == UNION {[1 .. k -> MsgChars] : k \in 0 .. MaxMsgLen}

\* ct_signverify.py line 8: 'Hi Alice,--Bob'
SecretMessage ==
    <<"H", "i", " ", "A", "l", "i", "c", "e", ",", "-", "-", "B", "o", "b">>

Alice == <<"A", "l", "i", "c", "e">>
Alicia == <<"A", "l", "i", "c", "i", "a">>
Eve == <<"E", "v", "e">>

\* Whether old occurs in s starting at position i.
OccursAt(s, old, i) ==
    /\ i + Len(old) - 1 <= Len(s)
    /\ SubSeq(s, i, i + Len(old) - 1) = old

\* str.replace(old, new), for a non-empty old: every non-overlapping
\* occurrence of old, scanning from the left, becomes new.
RECURSIVE ReplaceFrom(_, _, _, _)
ReplaceFrom(s, old, new, i) ==
    IF i > Len(s) THEN <<>>
    ELSE IF OccursAt(s, old, i)
         THEN new \o ReplaceFrom(s, old, new, i + Len(old))
         ELSE <<s[i]>> \o ReplaceFrom(s, old, new, i + 1)

Replace(s, old, new) == ReplaceFrom(s, old, new, 1)

\* A replace that looks for a name the message does not hold.
TaintedMessageWrongName(m) == Replace(m, Alicia, Eve)

\* ct_signverify.py line 21: secret_message.replace('Alice', 'Eve')
TaintedMessage(m) == Replace(m, Alice, Eve)

CharCode(c) == CHOOSE i \in 1 .. Len(Alphabet) : Alphabet[i] = c

\* The message digest, taken as collision-free: the character codes of the
\* message in reverse order.
Digest(m) == [i \in 1 .. Len(m) |-> CharCode(m[Len(m) + 1 - i])]

\* zymkey.client.sign(message) with key pair k: binds the private key and the
\* digest.
Sign(k, m) == [signer |-> k, over |-> Digest(m)]

\* zymkey.client.verify(message, signature) with key pair k: TRUE when the
\* call returns, FALSE when it raises VerificationError.
Verify(k, m, s) == s.signer = k /\ s.over = Digest(m)

NoSignature == [signer |-> 0, over |-> <<>>]

(***************************************************************************)
(* Perimeter tamper detection                                              *)
(***************************************************************************)

\* Tamper stimuli that the model follows.
MaxStimuli == 2
\* Ticks after which a blocked wait_for_perimeter_event times out.
WaitTimeout == 2

\* ct_perimeter_detect.py lines 15-16: the channels 1 and 0.
Channels == {0, 1}

\* Events latched before the script starts.
OldEvents == {<<-1, 0>>, <<-2, 1>>}

\* The perimeter event record for the latched events p: per channel, the
\* events detected on it.
InfoRecord(p) == [c \in Channels |-> {e[1] : e \in {f \in p : f[2] = c}}]

\* The empty / default record.
DefaultRecord == [c \in Channels |-> {}]

\* The events a record describes.
RecordEvents(r) == UNION {{<<i, c>> : i \in r[c]} : c \in Channels}

\* zymkey.client.clear_perimeter_detect_info(): the latched events after it.
ClearInfo(p) == {}

\* A read that resets the state.
AfterGetInfoReset(p) == {}

\* zymkey.client.get_perimeter_detect_info(): the latched events after the
\* read.
AfterGetInfo(p) == p

\* zymkey.client.set_perimeter_event_actions(channel, action_notify,
\* action_self_destruct)
SetActions(a, ch, notify, destruct) ==
    [a EXCEPT ![ch] = [notify |-> notify, self_destruct |-> destruct]]

NoActions == [c \in Channels |-> [notify |-> FALSE, self_destruct |-> FALSE]]

None == [kind |-> "None", info |-> DefaultRecord]

\* What wait_for_perimeter_event returns when events f fired during the
\* wait: the record, or None on a module with the reported behaviour.
WaitResult(f, quirk) ==
    IF quirk THEN None ELSE [kind |-> "record", info |-> InfoRecord(f)]

\* Python's truth value of the wait result (line 21: if not res).
Truthy(r) == r.kind # "None"

\* The positions of the notify script before its loop (lines 14-17).
BeforeLoop == {"n14", "n15", "n16", "n17"}

(***************************************************************************)
(* The bus to the module, shared by the host's processes                   *)
(***************************************************************************)

\* The polling loop (lines 5-7) and the notify loop (lines 18-24) of
\* ct_perimeter_detect.py and the loop of ct_sensor_encdec.py (lines 16-41),
\* each a process of its own.
Procs == {"poll", "notify", "sensor"}

NoMsg == [from |-> "none", op |-> "none"]

\* The first module call of each loop.
FirstOp(p) ==
    CASE p = "poll" -> "get_perimeter_detect_info"
      [] p = "notify" -> "wait_for_perimeter_event"
      [] OTHER -> "lock"

\* The module calls that may follow call op in process p: the polling loop
\* calls get again; in the notify loop get follows wait when res is falsy,
\* and wait follows itself otherwise.
NextOps(p, op) ==
    CASE p = "poll" -> {"get_perimeter_detect_info"}
      [] op = "wait_for_perimeter_event" ->
           {"get_perimeter_detect_info", "wait_for_perimeter_event"}
      [] op = "get_perimeter_detect_info" -> {"clear_perimeter_detect_info"}
      [] op = "clear_perimeter_detect_info" -> {"wait_for_perimeter_event"}
      [] op = "lock" -> {"unlock"}
      [] OTHER -> {"lock"}

\* A client that starts a transaction whoever holds the bus.
MayBeginAlways(owner) == TRUE

\* The client serialises the calls: a transaction begins only when no other
\* holds the bus.
MayBegin(owner) == owner = "none"

\* The module's response to the request on the bus.
Respond(req) == [from |-> req.from, op |-> req.op]

LockIdle ==
    /\ lk_script = "none"
    /\ lk_pc = "idle"
    /\ kc = 1
    /\ temperature_c = 0
    /\ plain = <<>>
    /\ cipher = NoBlob
    /\ plain_check = NoData
    /\ verdict = ""
    /\ buzzer = "LOW"
    /\ iter = 0
    /\ raised = NoError
    /\ uncaught = NoError
    /\ swallowed = {}
    /\ locked_out = NoBlob
    /\ lock_kc = 0
    /\ unlock_result = "none"
    /\ tampers = 0

RndIdle ==
    /\ rnd_script = "none"
    /\ rnd_pc = "idle"
    /\ x = 0
    /\ random_bytes = <<>>
    /\ announced = 0
    /\ entropy = 0

SignIdle ==
    /\ sg_script = "none"
    /\ sg_pc = "idle"
    /\ sk = 1
    /\ secret_message = <<>>
    /\ other_message = <<>>
    /\ signature = NoSignature
    /\ verify_genuine = ""
    /\ verify_other = ""
    /\ sg_out = ""

PeriIdle ==
    /\ pd_script = "none"
    /\ pd_pc = "idle"
    /\ wait_quirk = FALSE
    /\ pending = {}
    /\ actions = NoActions
    /\ waiting = FALSE
    /\ fired = {}
    /\ waited = 0
    /\ res = None
    /\ last_info = DefaultRecord
    /\ prev_info = DefaultRecord
    /\ printed = {}
    /\ cleared = {}
    /\ tracked = {}
    /\ stimuli = 0
    /\ got = 0
    /\ clean = FALSE
    /\ got_clean = FALSE
    /\ quiet = FALSE
    /\ quiet_prev = FALSE

BusIdle ==
    /\ bus_owner = "none"
    /\ bus_req = NoMsg
    /\ bus_resp = NoMsg
    /\ in_flight = {}
    /\ bpc = [p \in Procs |-> [op |-> "none", phase |-> "idle"]]
    /\ result = [p \in Procs |-> NoMsg]

(***************************************************************************)
(* The entropy scripts                                                     *)
(***************************************************************************)

RndInit ==
    /\ rnd_script \in {"ct_crypto", "ct_getrandom"}
    /\ rnd_pc = "start"
    /\ x = 0
    /\ random_bytes = <<>>
    /\ announced = 0
    /\ entropy \in 0 .. EntropyMod - 1
    /\ LockIdle
    /\ SignIdle
    /\ PeriIdle
    /\ BusIdle

\* ct_crypto.py lines 11-14: print the size, start with an empty list.
CryptoAnnounce ==
    /\ rnd_script = "ct_crypto"
    /\ rnd_pc = "start"
    /\ announced' = AnnouncedBytes
    /\ random_bytes' = <<>>
    /\ x' = 0
    /\ rnd_pc' = "loop"
    /\ UNCHANGED <<rnd_script, entropy>>
    /\ UNCHANGED <<lockVars, signVars, periVars, busVars>>

\* ct_crypto.py lines 15-16: one iteration of the accumulation loop.
CryptoLoopStep ==
    /\ rnd_script = "ct_crypto"
    /\ rnd_pc = "loop"
    /\ x < num_blocks
    /\ random_bytes' = Append(random_bytes, GetRandom(bs, entropy))
    /\ entropy' = NextEntropy(entropy)
    /\ x' = x + 1
    /\ UNCHANGED <<rnd_script, rnd_pc, announced>>
    /\ UNCHANGED <<lockVars, signVars, periVars, busVars>>

\* ct_crypto.py line 15: range(num_blocks) is exhausted; go on to line 18.
CryptoLoopExit ==
    /\ rnd_script = "ct_crypto"
    /\ rnd_pc = "loop"
    /\ x >= num_blocks
    /\ rnd_pc' = "encrypt"
    /\ UNCHANGED <<rnd_script, x, random_bytes, announced, entropy>>
    /\ UNCHANGED <<lockVars, signVars, periVars, busVars>>

\* ct_getrandom.py lines 8-9: one call of get_random(num).
GetRandomCall ==
    /\ rnd_script = "ct_getrandom"
    /\ rnd_pc = "start"
    /\ random_bytes' = <<GetRandom(num, entropy)>>
    /\ entropy' = NextEntropy(entropy)
    /\ rnd_pc' = "print"
    /\ UNCHANGED <<rnd_script, x, announced>>
    /\ UNCHANGED <<lockVars, signVars, periVars, busVars>>

RndNext ==
    \/ CryptoAnnounce
    \/ CryptoLoopStep
    \/ CryptoLoopExit
    \/ GetRandomCall

SpecRandom == RndInit /\ [][RndNext]_vars

(***************************************************************************)
(* The lock / unlock scripts                                               *)
(***************************************************************************)

LockInit ==
    /\ lk_script \in {"ct_crypto", "ct_lockunlock", "ct_sensor_encdec"}
    /\ lk_pc = CASE lk_script = "ct_crypto" -> "c_lock"
                 [] lk_script = "ct_lockunlock" -> "l_lock"
                 [] OTHER -> "s_read"
    /\ kc \in KeyContexts
    /\ temperature_c = 0
    /\ plain \in CASE lk_script = "ct_crypto" -> SeqsUpTo(MaxLen)
                   [] lk_script = "ct_lockunlock" -> {src}
                   [] OTHER -> {<<>>}
    /\ cipher = NoBlob
    /\ plain_check = NoData
    /\ verdict = ""
    /\ buzzer = "LOW"
    /\ iter = IF lk_script = "ct_sensor_encdec" THEN 1 ELSE 0
    /\ raised = NoError
    /\ uncaught = NoError
    /\ swallowed = {}
    /\ locked_out = NoBlob
    /\ lock_kc = 0
    /\ unlock_result = "none"
    /\ tampers = 0
    /\ RndIdle
    /\ SignIdle
    /\ PeriIdle
    /\ BusIdle

\* An error e raised at the current position: ct_sensor_encdec.py's except
\* clause (lines 37-41) takes it when it matches; anywhere else, and for any
\* other class, it ends the script.
Deliver(e) ==
    /\ raised' = e
    /\ IF lk_script = "ct_sensor_encdec" /\ lk_pc \in InTry /\ SensorCatches(e)
       THEN /\ lk_pc' = "s_sleep"
            /\ swallowed' = swallowed \cup {e}
            /\ uncaught' = uncaught
       ELSE /\ lk_pc' = "crashed"
            /\ uncaught' = e
            /\ swallowed' = swallowed

\* A call of zymkey.client.lock(plain): the blob, or HardwareError.
DoLock(next) ==
    \/ /\ \E n \in Ivs :
            /\ cipher' = Lock(kc, n, plain)
            /\ locked_out' = Lock(kc, n, plain)
       /\ lock_kc' = kc
       /\ tampers' = 0
       /\ unlock_result' = "none"
       /\ lk_pc' = next
       /\ UNCHANGED <<raised, uncaught, swallowed>>
    \/ /\ \E e \in LibraryErrors({"HardwareError"}) : Deliver(e)
       /\ UNCHANGED <<cipher, locked_out, lock_kc, tampers, unlock_result>>

\* A call of zymkey.client.unlock(cipher): the plaintext, IntegrityError, or
\* HardwareError.
DoUnlock(next) ==
    \/ /\ Unlock(kc, cipher).ok
       /\ plain_check' = Unlock(kc, cipher).data
       /\ unlock_result' = "ok"
       /\ lk_pc' = next
       /\ UNCHANGED <<raised, uncaught, swallowed>>
    \/ /\ ~Unlock(kc, cipher).ok
       /\ \E e \in LibraryErrors({"IntegrityError"}) : Deliver(e)
       /\ unlock_result' = "IntegrityError"
       /\ UNCHANGED plain_check
    \/ /\ \E e \in LibraryErrors({"HardwareError"}) : Deliver(e)
       /\ unlock_result' = "HardwareError"
       /\ UNCHANGED plain_check

\* ct_crypto.py line 20: encrypted = zymkey.client.lock(random_bytes)
CryptoLock ==
    /\ lk_script = "ct_crypto"
    /\ lk_pc = "c_lock"
    /\ DoLock("c_unlock")
    /\ UNCHANGED <<lk_script, kc, temperature_c, plain, plain_check, verdict,
                   buzzer, iter>>
    /\ UNCHANGED <<rndVars, signVars, periVars, busVars>>

\* ct_crypto.py line 24: decrypted = zymkey.client.unlock(encrypted)
CryptoUnlock ==
    /\ lk_script = "ct_crypto"
    /\ lk_pc = "c_unlock"
    /\ DoUnlock("c_compare")
    /\ UNCHANGED <<lk_script, kc, temperature_c, plain, cipher, verdict,
                   buzzer, iter, locked_out, lock_kc, tampers>>
    /\ UNCHANGED <<rndVars, signVars, periVars, busVars>>

\* ct_crypto.py lines 26-32: compare and print PASS or the mismatch line.
CryptoCompare ==
    /\ lk_script = "ct_crypto"
    /\ lk_pc = "c_compare"
    /\ verdict' = CryptoVerdict(plain, cipher, plain_check)
    /\ lk_pc' = "done"
    /\ UNCHANGED <<lk_script, kc, temperature_c, plain, cipher, plain_check,
                   buzzer, iter, raised, uncaught, swallowed, locked_out,
                   lock_kc, unlock_result, tampers>>
    /\ UNCHANGED <<rndVars, signVars, periVars, busVars>>

\* ct_lockunlock.py line 6: dst = zymkey.client.lock(src)
LockUnlockLock ==
    /\ lk_script = "ct_lockunlock"
    /\ lk_pc = "l_lock"
    /\ DoLock("l_unlock")
    /\ UNCHANGED <<lk_script, kc, temperature_c, plain, plain_check, verdict,
                   buzzer, iter>>
    /\ UNCHANGED <<rndVars, signVars, periVars, busVars>>

\* ct_lockunlock.py lines 17-18: new_dst = zymkey.client.unlock(dst)
LockUnlockUnlock ==
    /\ lk_script = "ct_lockunlock"
    /\ lk_pc = "l_unlock"
    /\ DoUnlock("done")
    /\ UNCHANGED <<lk_script, kc, temperature_c, plain, cipher, verdict,
                   buzzer, iter, locked_out, lock_kc, tampers>>
    /\ UNCHANGED <<rndVars, signVars, periVars, busVars>>

\* ct_sensor_encdec.py lines 19-22: read the sensor and print the reading, or
\* the driver raises its read error.
SensorRead ==
    /\ lk_script = "ct_sensor_encdec"
    /\ lk_pc = "s_read"
    /\ \/ /\ \E t \in 0 .. MaxTemp : temperature_c' = t
          /\ lk_pc' = "s_plain"
          /\ UNCHANGED <<raised, uncaught, swallowed>>
       \/ /\ Deliver(SensorReadError)
          /\ UNCHANGED temperature_c
    /\ UNCHANGED <<lk_script, kc, plain, cipher, plain_check, verdict, buzzer,
                   iter, locked_out, lock_kc, unlock_result, tampers>>
    /\ UNCHANGED <<rndVars, signVars, periVars, busVars>>

\* ct_sensor_encdec.py lines 23-24: plain = bytearray(temperature_c)
SensorPlain ==
    /\ lk_script = "ct_sensor_encdec"
    /\ lk_pc = "s_plain"
    /\ plain' = ByteArrayOfInt(temperature_c)
    /\ lk_pc' = "s_lock"
    /\ UNCHANGED <<lk_script, kc, temperature_c, cipher, plain_check, verdict,
                   buzzer, iter, raised, uncaught, swallowed, locked_out,
                   lock_kc, unlock_result, tampers>>
    /\ UNCHANGED <<rndVars, signVars, periVars, busVars>>

\* ct_sensor_encdec.py lines 26-27: cipher = zymkey.client.lock(plain)
SensorLock ==
    /\ lk_script = "ct_sensor_encdec"
    /\ lk_pc = "s_lock"
    /\ DoLock("s_unlock")
    /\ UNCHANGED <<lk_script, kc, temperature_c, plain, plain_check, verdict,
                   buzzer, iter>>
    /\ UNCHANGED <<rndVars, signVars, periVars, busVars>>

\* ct_sensor_encdec.py lines 29-30: plain_check = zymkey.client.unlock(cipher)
SensorUnlock ==
    /\ lk_script = "ct_sensor_encdec"
    /\ lk_pc = "s_unlock"
    /\ DoUnlock("s_compare")
    /\ UNCHANGED <<lk_script, kc, temperature_c, plain, cipher, verdict,
                   buzzer, iter, locked_out, lock_kc, tampers>>
    /\ UNCHANGED <<rndVars, signVars, periVars, busVars>>

\* ct_sensor_encdec.py lines 32-34: on equality print and raise the buzzer.
SensorCompare ==
    /\ lk_script = "ct_sensor_encdec"
    /\ lk_pc = "s_compare"
    /\ verdict' = SensorVerdict(plain, plain_check)
    /\ buzzer' = IF SensorVerdict(plain, plain_check) = "PASS"
                 THEN "HIGH" ELSE buzzer
    /\ lk_pc' = "s_loop"
    /\ UNCHANGED <<lk_script, kc, temperature_c, plain, cipher, plain_check,
                   iter, raised, uncaught, swallowed, locked_out, lock_kc,
                   unlock_result, tampers>>
    /\ UNCHANGED <<rndVars, signVars, periVars, busVars>>

\* ct_sensor_encdec.py line 41: time.sleep(2.0) at the end of the handler.
SensorSleep ==
    /\ lk_script = "ct_sensor_encdec"
    /\ lk_pc = "s_sleep"
    /\ lk_pc' = "s_loop"
    /\ UNCHANGED <<lk_script, kc, temperature_c, plain, cipher, plain_check,
                   verdict, buzzer, iter, raised, uncaught, swallowed,
                   locked_out, lock_kc, unlock_result, tampers>>
    /\ UNCHANGED <<rndVars, signVars, periVars, busVars>>

\* ct_sensor_encdec.py line 16: while True, the next iteration begins.
SensorLoop ==
    /\ lk_script = "ct_sensor_encdec"
    /\ lk_pc = "s_loop"
    /\ iter < MaxIter
    /\ iter' = iter + 1
    /\ lk_pc' = "s_read"
    /\ verdict' = ""
    /\ unlock_result' = "none"
    /\ raised' = NoError
    /\ locked_out' = NoBlob
    /\ lock_kc' = 0
    /\ tampers' = 0
    /\ UNCHANGED <<lk_script, kc, temperature_c, plain, cipher, plain_check,
                   buzzer, uncaught, swallowed>>
    /\ UNCHANGED <<rndVars, signVars, periVars, busVars>>

\* The blob is altered while the host holds it: a body byte changed, the body
\* cut or extended, the nonce changed, or the tag replaced by one made
\* without the module's key (key context 0).
TamperCipher ==
    /\ lk_pc \in HoldsBlob
    /\ tampers < MaxTamper
    /\ tampers' = tampers + 1
    /\ \/ \E i \in 1 .. Len(cipher.body) :
            cipher' = [cipher EXCEPT !.body[i] = (@ + 1) % 256]
       \/ /\ Len(cipher.body) > 0
          /\ cipher' = [cipher EXCEPT
                          !.body = SubSeq(cipher.body, 1, Len(cipher.body) - 1)]
       \/ cipher' = [cipher EXCEPT !.body = Append(cipher.body, 0)]
       \/ \E n \in Ivs \ {cipher.iv} : cipher' = [cipher EXCEPT !.iv = n]
       \/ cipher' = [cipher EXCEPT !.tag = Mac(0, cipher.iv, plain)]
    /\ UNCHANGED <<lk_script, lk_pc, kc, temperature_c, plain, plain_check,
                   verdict, buzzer, iter, raised, uncaught, swallowed,
                   locked_out, lock_kc, unlock_result>>
    /\ UNCHANGED <<rndVars, signVars, periVars, busVars>>

\* The blob is presented to a module with another key context.
ChangeKeyContext ==
    /\ lk_pc \in HoldsBlob
    /\ \E k \in KeyContexts \ {kc} : kc' = k
    /\ UNCHANGED <<lk_script, lk_pc, temperature_c, plain, cipher, plain_check,
                   verdict, buzzer, iter, raised, uncaught, swallowed,
                   locked_out, lock_kc, unlock_result, tampers>>
    /\ UNCHANGED <<rndVars, signVars, periVars, busVars>>

LockNext ==
    \/ CryptoLock
    \/ CryptoUnlock
    \/ CryptoCompare
    \/ LockUnlockLock
    \/ LockUnlockUnlock
    \/ SensorRead
    \/ SensorPlain
    \/ SensorLock
    \/ SensorUnlock
    \/ SensorCompare
    \/ SensorSleep
    \/ SensorLoop
    \/ TamperCipher
    \/ ChangeKeyContext

SpecLock == LockInit /\ [][LockNext]_vars

(***************************************************************************)
(* ct_signverify.py, and sign / verify on drawn messages                   *)
(***************************************************************************)

SignInit ==
    /\ sg_script \in {"ct_signverify", "drawn"}
    /\ sg_pc = "sign"
    /\ sk \in KeyContexts
    /\ secret_message \in IF sg_script = "ct_signverify"
                          THEN {SecretMessage} ELSE Msgs
    /\ other_message \in IF sg_script = "ct_signverify" THEN {<<>>} ELSE Msgs
    /\ signature = NoSignature
    /\ verify_genuine = ""
    /\ verify_other = ""
    /\ sg_out = ""
    /\ RndIdle
    /\ LockIdle
    /\ PeriIdle
    /\ BusIdle

\* ct_signverify.py line 12: signature = zymkey.client.sign(secret_message)
SignMessage ==
    /\ sg_pc = "sign"
    /\ signature' = Sign(sk, secret_message)
    /\ sg_pc' = "verify"
    /\ UNCHANGED <<sg_script, sk, secret_message, other_message,
                   verify_genuine, verify_other, sg_out>>
    /\ UNCHANGED <<rndVars, lockVars, periVars, busVars>>

\* ct_signverify.py line 16: zymkey.client.verify(secret_message, signature),
\* outside any try: a VerificationError here ends the script.
VerifyMessage ==
    /\ sg_pc = "verify"
    /\ IF Verify(sk, secret_message, signature)
       THEN /\ verify_genuine' = "OK"
            /\ sg_pc' = "tainted"
       ELSE /\ verify_genuine' = "VerificationError"
            /\ sg_pc' = "crashed"
    /\ UNCHANGED <<sg_script, sk, secret_message, other_message, signature,
                   verify_other, sg_out>>
    /\ UNCHANGED <<rndVars, lockVars, periVars, busVars>>

\* ct_signverify.py lines 19-25: verify the altered message inside try;
\* except VerificationError prints, else raises.
VerifyTainted ==
    /\ sg_script = "ct_signverify"
    /\ sg_pc = "tainted"
    /\ other_message' = TaintedMessage(secret_message)
    /\ IF Verify(sk, TaintedMessage(secret_message), signature)
       THEN /\ verify_other' = "OK"
            /\ sg_out' = "verification should have failed, but passed"
            /\ sg_pc' = "crashed"
       ELSE /\ verify_other' = "VerificationError"
            /\ sg_out' = "FAIL, yay!"
            /\ sg_pc' = "done"
    /\ UNCHANGED <<sg_script, sk, secret_message, signature, verify_genuine>>
    /\ UNCHANGED <<rndVars, lockVars, periVars, busVars>>

\* verify(other_message, signature) for a drawn other_message.
VerifyDrawn ==
    /\ sg_script = "drawn"
    /\ sg_pc = "tainted"
    /\ verify_other' = IF Verify(sk, other_message, signature)
                       THEN "OK" ELSE "VerificationError"
    /\ sg_pc' = "done"
    /\ UNCHANGED <<sg_script, sk, secret_message, other_message, signature,
                   verify_genuine, sg_out>>
    /\ UNCHANGED <<rndVars, lockVars, periVars, busVars>>

SignNext ==
    \/ SignMessage
    \/ VerifyMessage
    \/ VerifyTainted
    \/ VerifyDrawn

SpecSign == SignInit /\ [][SignNext]_vars

(***************************************************************************)
(* ct_perimeter_detect.py                                                  *)
(***************************************************************************)

PeriInit ==
    /\ pd_script \in {"poll", "notify"}
    /\ pd_pc = IF pd_script = "poll" THEN "p4" ELSE "n14"
    /\ wait_quirk \in BOOLEAN
    /\ pending \in SUBSET OldEvents
    /\ actions = NoActions
    /\ waiting = FALSE
    /\ fired = {}
    /\ waited = 0
    /\ res = None
    /\ last_info = DefaultRecord
    /\ prev_info = DefaultRecord
    /\ printed = {}
    /\ cleared = {}
    /\ tracked = {}
    /\ stimuli = 0
    /\ got = 0
    /\ clean = FALSE
    /\ got_clean = FALSE
    /\ quiet = FALSE
    /\ quiet_prev = FALSE
    /\ RndIdle
    /\ LockIdle
    /\ SignIdle
    /\ BusIdle

\* A call of clear_perimeter_detect_info() at the current position.
CallClear(next) ==
    /\ pending' = ClearInfo(pending)
    /\ cleared' = cleared \cup (pending \ ClearInfo(pending))
    /\ clean' = TRUE
    /\ quiet' = FALSE
    /\ pd_pc' = next
    /\ UNCHANGED <<pd_script, wait_quirk, actions, waiting, fired, waited, res,
                   last_info, prev_info, printed, tracked, stimuli, got,
                   got_clean, quiet_prev>>

\* print(get_perimeter_detect_info()) at the current position.
CallGet(next) ==
    /\ last_info' = InfoRecord(pending)
    /\ prev_info' = last_info
    /\ printed' = printed \cup RecordEvents(InfoRecord(pending))
    /\ pending' = AfterGetInfo(pending)
    /\ cleared' = cleared \cup (pending \ AfterGetInfo(pending))
    /\ got' = IF got < 2 THEN got + 1 ELSE got
    /\ got_clean' = clean
    /\ quiet_prev' = quiet
    /\ quiet' = TRUE
    /\ pd_pc' = next
    /\ UNCHANGED <<pd_script, wait_quirk, actions, waiting, fired, waited, res,
                   tracked, stimuli, clean>>

\* A step that only moves the script on.
Goto(next) ==
    /\ pd_pc' = next
    /\ UNCHANGED <<pd_script, wait_quirk, pending, actions, waiting, fired,
                   waited, res, last_info, prev_info, printed, cleared, tracked,
                   stimuli, got, clean, got_clean, quiet, quiet_prev>>

\* A polling script that starts without clearing.
PollClearSkipped ==
    /\ pd_script = "poll"
    /\ pd_pc = "p4"
    /\ Goto("p6")
    /\ UNCHANGED <<rndVars, lockVars, signVars, busVars>>

\* Line 4: zymkey.client.clear_perimeter_detect_info()
PollClear ==
    /\ pd_script = "poll"
    /\ pd_pc = "p4"
    /\ CallClear("p6")
    /\ UNCHANGED <<rndVars, lockVars, signVars, busVars>>

\* Line 6: print(zymkey.client.get_perimeter_detect_info())
PollGet ==
    /\ pd_script = "poll"
    /\ pd_pc = "p6"
    /\ CallGet("p7")
    /\ UNCHANGED <<rndVars, lockVars, signVars, busVars>>

\* Line 7: time.sleep(1), then line 5: while True
PollSleep ==
    /\ pd_script = "poll"
    /\ pd_pc = "p7"
    /\ Goto("p6")
    /\ UNCHANGED <<rndVars, lockVars, signVars, busVars>>

\* Lines 14 and 17: print(zymkey.client.clear_perimeter_detect_info())
NotifyClearFirst ==
    /\ pd_script = "notify"
    /\ pd_pc \in {"n14", "n17"}
    /\ CallClear(IF pd_pc = "n14" THEN "n15" ELSE "n19")
    /\ UNCHANGED <<rndVars, lockVars, signVars, busVars>>

\* Lines 15 and 16: set_perimeter_event_actions(1, ...) then (0, ...), both
\* with action_notify=True, action_self_destruct=False.
NotifySetActions ==
    /\ pd_script = "notify"
    /\ pd_pc \in {"n15", "n16"}
    /\ actions' = SetActions(actions, IF pd_pc = "n15" THEN 1 ELSE 0, TRUE, FALSE)
    /\ pd_pc' = IF pd_pc = "n15" THEN "n16" ELSE "n17"
    /\ UNCHANGED <<pd_script, wait_quirk, pending, waiting, fired, waited, res,
                   last_info, prev_info, printed, cleared, tracked, stimuli,
                   got, clean, got_clean, quiet, quiet_prev>>
    /\ UNCHANGED <<rndVars, lockVars, signVars, busVars>>

\* Line 19: the call of wait_for_perimeter_event() blocks.
NotifyWaitBegin ==
    /\ pd_script = "notify"
    /\ pd_pc = "n19"
    /\ waiting' = TRUE
    /\ fired' = {}
    /\ waited' = 0
    /\ pd_pc' = "n19w"
    /\ UNCHANGED <<pd_script, wait_quirk, pending, actions, res, last_info,
                   prev_info, printed, cleared, tracked, stimuli, got, clean,
                   got_clean, quiet, quiet_prev>>
    /\ UNCHANGED <<rndVars, lockVars, signVars, busVars>>

\* Line 19: the call returns, because an event fired or the time is up.
NotifyWaitReturn ==
    /\ pd_script = "notify"
    /\ pd_pc = "n19w"
    /\ \/ /\ fired # {}
          /\ res' = WaitResult(fired, wait_quirk)
       \/ /\ fired = {}
          /\ waited >= WaitTimeout
          /\ res' = None
    /\ waiting' = FALSE
    /\ pd_pc' = "n20"
    /\ UNCHANGED <<pd_script, wait_quirk, pending, actions, fired, waited,
                   last_info, prev_info, printed, cleared, tracked, stimuli,
                   got, clean, got_clean, quiet, quiet_prev>>
    /\ UNCHANGED <<rndVars, lockVars, signVars, busVars>>

\* Lines 20-21: print(res); if not res.
NotifyPrintRes ==
    /\ pd_script = "notify"
    /\ pd_pc = "n20"
    /\ printed' = printed \cup RecordEvents(res.info)
    /\ pd_pc' = IF Truthy(res) THEN "n24" ELSE "n22"
    /\ UNCHANGED <<pd_script, wait_quirk, pending, actions, waiting, fired,
                   waited, res, last_info, prev_info, cleared, tracked, stimuli,
                   got, clean, got_clean, quiet, quiet_prev>>
    /\ UNCHANGED <<rndVars, lockVars, signVars, busVars>>

\* Line 22: print(zymkey.client.get_perimeter_detect_info())
NotifyGet ==
    /\ pd_script = "notify"
    /\ pd_pc = "n22"
    /\ CallGet("n23")
    /\ UNCHANGED <<rndVars, lockVars, signVars, busVars>>

\* Line 23: zymkey.client.clear_perimeter_detect_info()
NotifyClear ==
    /\ pd_script = "notify"
    /\ pd_pc = "n23"
    /\ CallClear("n24")
    /\ UNCHANGED <<rndVars, lockVars, signVars, busVars>>

\* Line 24: time.sleep(1), then line 18: while True
NotifySleep ==
    /\ pd_script = "notify"
    /\ pd_pc = "n24"
    /\ Goto("n19")
    /\ UNCHANGED <<rndVars, lockVars, signVars, busVars>>

\* A tamper stimulus on channel ch: the event is latched; a blocked wait
\* call is woken when the channel notifies.
Stimulus ==
    /\ stimuli < MaxStimuli
    /\ \E ch \in Channels :
         /\ pending' = pending \cup {<<stimuli + 1, ch>>}
         /\ fired' = IF waiting /\ actions[ch].notify
                     THEN fired \cup {<<stimuli + 1, ch>>} ELSE fired
         /\ tracked' = IF pd_script = "notify" /\ pd_pc \notin BeforeLoop
                       THEN tracked \cup {<<stimuli + 1, ch>>} ELSE tracked
    /\ stimuli' = stimuli + 1
    /\ clean' = FALSE
    /\ quiet' = FALSE
    /\ UNCHANGED <<pd_script, pd_pc, wait_quirk, actions, waiting, waited, res,
                   last_info, prev_info, printed, cleared, got, got_clean,
                   quiet_prev>>
    /\ UNCHANGED <<rndVars, lockVars, signVars, busVars>>

\* Time passes while the wait call is blocked.
Tick ==
    /\ waiting
    /\ waited < WaitTimeout
    /\ waited' = waited + 1
    /\ UNCHANGED <<pd_script, pd_pc, wait_quirk, pending, actions, waiting,
                   fired, res, last_info, prev_info, printed, cleared, tracked,
                   stimuli, got, clean, got_clean, quiet, quiet_prev>>
    /\ UNCHANGED <<rndVars, lockVars, signVars, busVars>>

PeriNext ==
    \/ PollClear
    \/ PollGet
    \/ PollSleep
    \/ NotifyClearFirst
    \/ NotifySetActions
    \/ NotifyWaitBegin
    \/ NotifyWaitReturn
    \/ NotifyPrintRes
    \/ NotifyGet
    \/ NotifyClear
    \/ NotifySleep
    \/ Stimulus
    \/ Tick

SpecPerimeter == PeriInit /\ [][PeriNext]_vars

(***************************************************************************)
(* The two loops sharing the module                                        *)
(***************************************************************************)

BusInit ==
    /\ bus_owner = "none"
    /\ bus_req = NoMsg
    /\ bus_resp = NoMsg
    /\ in_flight = {}
    /\ bpc = [p \in Procs |-> [op |-> FirstOp(p), phase |-> "call"]]
    /\ result = [p \in Procs |-> NoMsg]
    /\ RndIdle
    /\ LockIdle
    /\ SignIdle
    /\ PeriIdle

\* Process p starts the module call it is at: it takes the bus and puts its
\* request on it.
BeginCall(p) ==
    /\ bpc[p].phase = "call"
    /\ MayBegin(bus_owner)
    /\ bus_owner' = p
    /\ bus_req' = [from |-> p, op |-> bpc[p].op]
    /\ in_flight' = in_flight \cup {p}
    /\ bpc' = [bpc EXCEPT ![p].phase = "sent"]
    /\ UNCHANGED <<bus_resp, result>>
    /\ UNCHANGED <<rndVars, lockVars, signVars, periVars>>

\* The module answers the request on the bus.
ModuleAnswers ==
    /\ bus_req # NoMsg
    /\ bus_resp' = Respond(bus_req)
    /\ bus_req' = NoMsg
    /\ UNCHANGED <<bus_owner, in_flight, bpc, result>>
    /\ UNCHANGED <<rndVars, lockVars, signVars, periVars>>

\* Process p takes the response off the bus, releases the bus and goes on
\* to the next call of its loop.
EndCall(p) ==
    /\ bpc[p].phase = "sent"
    /\ bus_resp # NoMsg
    /\ result' = [result EXCEPT ![p] = bus_resp]
    /\ bus_resp' = NoMsg
    /\ bus_owner' = IF bus_owner = p THEN "none" ELSE bus_owner
    /\ in_flight' = in_flight \ {p}
    /\ \E op \in NextOps(p, bpc[p].op) :
         bpc' = [bpc EXCEPT ![p] = [op |-> op, phase |-> "call"]]
    /\ UNCHANGED bus_req
    /\ UNCHANGED <<rndVars, lockVars, signVars, periVars>>

BusNext ==
    \/ \E p \in Procs : BeginCall(p)
    \/ ModuleAnswers
    \/ \E p \in Procs : EndCall(p)

SpecBus == BusInit /\ [][BusNext]_vars

(***************************************************************************)
(* The claims                                                              *)
(***************************************************************************)

\* C7: when ct_crypto.py's accumulation loop has finished, random_bytes
\* holds 1 MB (1,048,576 bytes), the byte count the script printed.
C7_LoopFillsOneMegabyte ==
    (rnd_script = "ct_crypto" /\ rnd_pc = "encrypt") =>
        /\ ByteLen(random_bytes) = OneMegabyte
        /\ ByteLen(random_bytes) = announced

\* The held blob is the one lock returned and the module has the key context
\* lock ran under.
Genuine == cipher = locked_out /\ kc = lock_kc

\* C1: unlock(lock(x)) returns x, byte for byte, when both calls use the same
\* key context and the blob is handed over unchanged (unless the module is
\* unreachable), and the equality checks of ct_crypto.py and
\* ct_sensor_encdec.py then take the PASS branch.
C1_RoundTrip ==
    /\ (Genuine /\ unlock_result \in {"ok", "IntegrityError"}) =>
           /\ unlock_result = "ok"
           /\ plain_check = plain
    /\ verdict # "" => verdict = "PASS"

\* C1 witness: ct_crypto.py printed PASS for a non-empty block whose blob
\* body differs from the plaintext.
C1_Witness ==
    /\ lk_script = "ct_crypto"
    /\ lk_pc = "done"
    /\ verdict = "PASS"
    /\ Len(plain) > 0
    /\ cipher.body # plain
    /\ plain_check = plain

C9_TamperRejected ==
    /\ (~Genuine /\ unlock_result \in {"ok", "IntegrityError"}) =>
           unlock_result = "IntegrityError"
    /\ unlock_result = "IntegrityError" =>
           /\ raised.name = "IntegrityError"
           /\ lk_pc \in {"crashed", "s_sleep", "s_loop"}
           /\ verdict = ""
           /\ iter <= 1 => plain_check = NoData
    /\ unlock_result = "ok" => plain_check = plain

\* C9 witness: unlock refused a blob whose body was altered, under the key
\* context that locked it.
C9_Witness ==
    /\ unlock_result = "IntegrityError"
    /\ cipher.body # locked_out.body
    /\ kc = lock_kc
    /\ raised.name = "IntegrityError"

\* C2: verify(m, sign(m)) returns without error; verify(m', sign(m)) for any
\* m' # m raises VerificationError; ct_signverify.py therefore prints
\* 'FAIL, yay!' and never raises 'verification should have failed, but
\* passed'.
C2_SignVerify ==
    /\ verify_genuine # "" => verify_genuine = "OK"
    /\ (verify_other # "" /\ other_message # secret_message) =>
           verify_other = "VerificationError"
    /\ (verify_other # "" /\ other_message = secret_message) =>
           verify_other = "OK"
    /\ sg_pc # "crashed"
    /\ (sg_script = "ct_signverify" /\ sg_pc = "done") => sg_out = "FAIL, yay!"
    /\ sg_out \in {"", "FAIL, yay!"}

\* C2 witness: ct_signverify.py verified 'Hi Alice,--Bob', then
\* 'Hi Eve,--Bob' was refused and the script printed 'FAIL, yay!'.
C2_Witness ==
    /\ sg_script = "ct_signverify"
    /\ sg_pc = "done"
    /\ verify_genuine = "OK"
    /\ other_message =
         <<"H", "i", " ", "E", "v", "e", ",", "-", "-", "B", "o", "b">>
    /\ verify_other = "VerificationError"
    /\ sg_out = "FAIL, yay!"

\* C3: clear_perimeter_detect_info() resets the state to CLEARED whatever was
\* pending; a get_perimeter_detect_info() after a clear, with no stimulus in
\* between, returns the default record.  For the polling script: as long as
\* no stimulus has fired since it started, what it prints is the default
\* record.
C3_ClearResets ==
    /\ clean => pending = {}
    /\ (got > 0 /\ got_clean) => last_info = DefaultRecord
    /\ (pd_script = "poll" /\ got > 0 /\ stimuli = 0) => last_info = DefaultRecord

\* C3 witness: a clear discarded a latched event and the get after it
\* returned the default record.
C3_Witness ==
    /\ cleared # {}
    /\ got > 0
    /\ got_clean
    /\ last_info = DefaultRecord

C5_WaitContract ==
    pd_pc = "n20" =>
        /\ res.kind = "None" => (fired = {} /\ waited >= WaitTimeout)
        /\ fired # {} => res.kind = "record"

\* C10: in the notify loop every event that fired after line 17 has been
\* printed before a clear discards it.
C10_NoEventLost == (cleared \cap tracked) \subseteq printed

\* Process p has had a call answered.
Answered(p) == result[p] # NoMsg

\* C6: at most one bus transaction is in progress at any moment, and every
\* caller receives the response to its own request.
C6_BusExclusive ==
    /\ Cardinality(in_flight) <= 1
    /\ \A p \in Procs :
         Answered(p) =>
             /\ result[p].from = p
             /\ bpc[p].op \in NextOps(p, result[p].op)
    /\ bus_req # NoMsg => bus_req.from = bus_owner
    /\ bus_resp # NoMsg => bus_resp.from = bus_owner

\* C6 witness: all loops have had calls answered, the sensor loop's unlock
\* is on the bus and the polling and notify loops are about to call get.
C6_Witness ==
    /\ Answered("notify")
    /\ Answered("poll")
    /\ bpc["poll"].phase = "call"
    /\ Answered("sensor")
    /\ in_flight = {"sensor"}
    /\ bus_req = [from |-> "sensor", op |-> "unlock"]
    /\ bpc["notify"] = [op |-> "get_perimeter_detect_info", phase |-> "call"]

====
